---------------------------- MODULE Spec2Model ----------------------------
(***************************************************************************)
(* Model of visa_requirements.py: the requirement tables, the resolver     *)
(* get_requirements, and the command-line entry point with its interactive *)
(* prompt; and of web_app.py: the form page and its event handlers.        *)
(*                                                                         *)
(* Text.  The module's strings are Japanese; each distinct source string   *)
(* is written here as one ASCII token (equal source strings get the same   *)
(* token, different source strings different tokens), with the source line *)
(* beside it.  A list item and an error message are sequences of text      *)
(* fragments: a literal of the tables is the one-fragment item <<token>>,  *)
(* and an f-string is the sequence of its literal parts and its            *)
(* interpolated values, in order.                                          *)
(***************************************************************************)
EXTENDS Integers, Sequences, FiniteSets, TLC

VARIABLES
    rules,              \* the module globals: the three tables get_requirements reads
    call,               \* the latest call of get_requirements: its arguments and outcome
    prev,               \* an earlier call a caller kept, to compare a later one with
    between,            \* the calls made since that call was kept
    pc,                 \* the command-line process's position
    status_choice,      \* interactive_prompt's locals (lines 178, 188, 197)
    scenario_choice,
    scholarship_choice,
    status,             \* the selections interactive_prompt resolved (lines 181, 190, 201)
    scenario_label,
    scholarship,
    printed,            \* the requirement list written to standard output
    exit_status,        \* the process's exit status and error text
    form                \* the form page: its elements and the script's selectedScenarios

vars == <<rules, call, prev, between, pc, status_choice, scenario_choice, scholarship_choice,
          status, scenario_label, scholarship, printed, exit_status, form>>

-----------------------------------------------------------------------------
(* Python values *)

\* Python's None, and a str held where None is possible (Optional[str]).
None == [none |-> TRUE]
Some(s) == [none |-> FALSE, val |-> s]

\* Truthiness of an Optional[str]: None and "" are falsy.
Truthy(x) == x # None /\ x.val # ""

\* A table literal: the one-fragment item.
Lit(s) == <<s>>
Items(seq) == [i \in DOMAIN seq |-> Lit(seq[i])]

Range(seq) == {seq[i] : i \in DOMAIN seq}
Min(S) == CHOOSE m \in S : \A n \in S : m <= n

\* A dict is the sequence of its (key, value) entries in insertion order.
Entry(k, v) == [key |-> k, value |-> v]
keys(d) == [i \in DOMAIN d |-> d[i].key]
contains(d, k) == \E i \in DOMAIN d : d[i].key = k
lookup(d, k) == d[Min({i \in DOMAIN d : d[i].key = k})].value
get(d, k, default) == IF contains(d, k) THEN lookup(d, k) ELSE default

\* sep.join(xs), as fragments: the elements with the separator between them.
RECURSIVE join(_, _)
join(sep, xs) ==
    IF Len(xs) = 0 THEN <<>>
    ELSE IF Len(xs) = 1 THEN <<xs[1]>>
    ELSE <<xs[1], sep>> \o join(sep, Tail(xs))

-----------------------------------------------------------------------------
(* The tables *)

COMMON_REQUIREMENTS ==
    Items(<<"application_form_3_plus_2_sheets",          \* line 16
            "document_checklist_and_enrollment_certs",   \* line 17
            "transcripts_and_enrollment_certs_unmasked", \* line 18
            "passport_and_residence_card_originals",     \* line 19
            "revenue_stamp_6000_yen">>)                  \* line 20

Scenario(label, requirements) == [label |-> label, requirements |-> Items(requirements)]

\* Statuses: Seikisei = 正規生, Kenkyusei = 研究生, TokubetsuChokoGakusei = 特別聴講学生.
STATUS_RULES ==
    << Entry("Seikisei", <<
         Scenario("current_year_enrolled_prev_semester",             \* 現学年・前学期在籍
                  <<"alien_registration_cert_original",              \* line 35
                    "transcript_prev_year_or_semester",              \* line 36
                    "enrollment_cert_with_period">>),                \* line 37
         Scenario("prev_semester_not_taken",                         \* 前学期未履修（未受験）
                  <<"alien_registration_cert_original",              \* line 43
                    "financial_support_cert_one_of">>),              \* line 44
         Scenario("withdrew_transfer_from_language_school",          \* 途中退学（日本語学校から転校）
                  <<"alien_registration_cert_original",              \* line 50
                    "withdrawal_cert_from_language_school",          \* line 51
                    "enrollment_cert_former_school_with_period",     \* line 52
                    "university_admission_plan_cert">>) >>),         \* line 53
       Entry("Kenkyusei", <<
         Scenario("prev_semester_also_research_student",             \* 前学期も研究生として在籍
                  <<"alien_registration_cert_or_card_copy",          \* line 61
                    "transcript_prev_semester_support_office">>),    \* line 62
         Scenario("prev_semester_at_language_school",                \* 前学期に日本語学校へ在籍
                  <<"alien_registration_cert_original",              \* line 68
                    "language_school_certs">>),                      \* line 69
         Scenario("prev_semester_3_or_more_courses",                 \* 前学期に3科目以上を履修（10単位程度）
                  <<"alien_registration_cert_original",              \* line 75
                    "transcript_support_office",                     \* line 76
                    "enrollment_cert_faculty_support_office",        \* line 77
                    "auditing_cert_signed_by_instructor">>) >>),     \* line 78
       Entry("TokubetsuChokoGakusei", <<
         Scenario("advancing_to_graduate_school_admitted",           \* 大学院等へ進学予定（合格済）
                  <<"acceptance_letter_copy",                        \* line 86
                    "financial_support_cert_if_no_prev_courses">>),  \* line 87
         Scenario("prev_semester_courses_taken",                     \* 前学期に履修あり
                  <<"alien_registration_cert_original",              \* line 93
                    "transcript_prev_semester",                      \* line 94
                    "enrollment_cert_support_office">>) >>) >>       \* line 95

SCHOLARSHIP_RULES ==
    << Entry("government_scholarship_student",                       \* 国費留学生
             Items(<<"mext_scholarship_cert">>)),                    \* line 126
       Entry("non_government_scholarship_student",                   \* 日本政府以外の奨学金受給学生
             Items(<<"scholarship_cert_original">>)),                \* line 129
       Entry("reserved_scholarship_decided",                         \* 予約採用奨学金（決定済み）
             Items(<<"self_funded_applicant_form",                   \* line 132
                     "recommender_expected_scholarship_cert">>)),    \* line 133
       Entry("reserved_scholarship_undecided",                       \* 予約採用奨学金（未決定・受給予定なし）
             Items(<<"not_required_without_reserved_scholarship">>)),\* line 136
       Entry("no_scholarship", <<>>) >>                              \* 奨学金なし, line 138

\* web_app.py imports SCHOLARSHIP_STATUS_RULES from visa_requirements (line 14), which
\* does not define it; the specification describes it as a map from a
\* scholarship-status key to an ordered list of strings and gives no entry. One
\* entry stands for it.
SCHOLARSHIP_STATUS_RULES ==
    << Entry("scholarship_status_key", Items(<<"scholarship_status_document">>)) >>

\* The module globals as the import leaves them.
Globals ==
    [COMMON_REQUIREMENTS |-> COMMON_REQUIREMENTS,
     STATUS_RULES        |-> STATUS_RULES,
     SCHOLARSHIP_RULES   |-> SCHOLARSHIP_RULES]


-----------------------------------------------------------------------------
(* get_requirements *)

\* An outcome of a call: a returned list, or a raised exception with its message.
Return(value) == [kind |-> "return", value |-> value]
Raise(type, msg) == [kind |-> type, msg |-> msg]

\* The literal parts of the messages.
MSG_UNKNOWN_STATUS == "unsupported_status: "                  \* 未対応の身分です: (line 153)
MSG_UNKNOWN_SCENARIO == "scenario_does_not_match: "           \* シナリオが一致しません: (line 161)
MSG_CANDIDATES == ". candidates: "                            \* 。候補: (line 161)
MSG_SCHOLARSHIP_PRE == "scholarship_category '"               \* 奨学金区分 ' (line 167)
MSG_SCHOLARSHIP_POST == "' is_not_registered."                \* ' は登録されていません。 (line 167)

\* line 152: status not in STATUS_RULES
status_known(st) == contains(rules.STATUS_RULES, st)

\* A variant of find_scenario: the first scenario as the default of next().
find_scenario_or_first(scenarios, label) ==
    LET hits == {i \in DOMAIN scenarios : scenarios[i].label = label}
    IN  IF hits = {} THEN scenarios[1] ELSE scenarios[Min(hits)]

\* lines 156-158: next((sc for sc in scenarios if sc.label == scenario_label), None)
find_scenario(scenarios, label) ==
    LET hits == {i \in DOMAIN scenarios : scenarios[i].label = label}
    IN  IF hits = {} THEN None ELSE scenarios[Min(hits)]

\* A variant of valid_labels: the labels of every status, as list_options walks them.
valid_labels_of_all_statuses(st, scenarios) ==
    LET all == rules.STATUS_RULES
        RECURSIVE flat(_)
        flat(i) == IF i > Len(all) THEN <<>>
                   ELSE [j \in DOMAIN all[i].value |-> all[i].value[j].label] \o flat(i + 1)
    IN  join(", ", flat(1))

\* line 160: ", ".join(sc.label for sc in scenarios)
valid_labels(st, scenarios) ==
    join(", ", [i \in DOMAIN scenarios |-> scenarios[i].label])

\* A variant of scenario_error_message: the message without the candidates.
scenario_error_message_without_candidates(st, label, scenarios) ==
    <<MSG_UNKNOWN_SCENARIO, label>>

\* line 161: the unknown-scenario message
scenario_error_message(st, label, scenarios) ==
    <<MSG_UNKNOWN_SCENARIO, label, MSG_CANDIDATES>> \o valid_labels(st, scenarios)

\* A variant of scholarship_requirements: an unregistered key adds nothing
\* (the form page's scholarshipData[scholarship] || []).
scholarship_requirements_or_nothing(sch) ==
    get(rules.SCHOLARSHIP_RULES, sch, <<>>)

\* lines 166-168: SCHOLARSHIP_RULES.get(scholarship, [placeholder])
scholarship_requirements(sch) ==
    get(rules.SCHOLARSHIP_RULES, sch,
        << <<MSG_SCHOLARSHIP_PRE, sch, MSG_SCHOLARSHIP_POST>> >>)

\* A variant of build_requirements: the scenario's requirements before the common ones.
build_requirements_scenario_first(scenario, sch) ==
    LET requirements == scenario.requirements \o rules.COMMON_REQUIREMENTS
    IN  IF Truthy(sch)
        THEN requirements \o scholarship_requirements(sch.val)
        ELSE requirements

\* A variant of build_requirements: the scholarship segment before the scenario's.
build_requirements_scholarship_before_scenario(scenario, sch) ==
    IF Truthy(sch)
    THEN rules.COMMON_REQUIREMENTS \o scholarship_requirements(sch.val)
            \o scenario.requirements
    ELSE rules.COMMON_REQUIREMENTS \o scenario.requirements

\* lines 163-171: the returned list. The list is built fresh (line 163) and only
\* that fresh list is extended (line 169).
build_requirements(scenario, sch) ==
    LET requirements == rules.COMMON_REQUIREMENTS \o scenario.requirements
    IN  IF Truthy(sch)
        THEN requirements \o scholarship_requirements(sch.val)
        ELSE requirements

\* A variant of globals_after: requirements = COMMON_REQUIREMENTS (no copy), so
\* that the extend() calls grow the table itself.
globals_after_aliasing(scenario, sch) ==
    [rules EXCEPT !.COMMON_REQUIREMENTS =
        IF Truthy(sch)
        THEN @ \o scenario.requirements \o scholarship_requirements(sch.val)
        ELSE @ \o scenario.requirements]

\* lines 163-169: what the call leaves in the module globals. Line 163 copies
\* COMMON_REQUIREMENTS into a new list, so extend() touches no table.
globals_after(scenario, sch) == rules

\* A variant of get_requirements: STATUS_RULES.get(status, []) in place of the
\* membership test, so that an unknown status reaches the scenario search.
get_requirements_status_default(st, label, sch) ==
    LET scenarios == get(rules.STATUS_RULES, st, <<>>)
        scenario == find_scenario(scenarios, label)
    IN  IF scenario = None
        THEN [outcome |-> Raise("ValueError",
                                scenario_error_message(st, label, scenarios)),
              globals |-> rules]
        ELSE [outcome |-> Return(build_requirements(scenario, sch)),
              globals |-> globals_after(scenario, sch)]

\* lines 151-171. The outcome of the call and the module globals after it.
get_requirements(st, label, sch) ==
    IF ~status_known(st)
    THEN [outcome |-> Raise("ValueError", <<MSG_UNKNOWN_STATUS, st>>), globals |-> rules]
    ELSE LET scenarios == lookup(rules.STATUS_RULES, st)
             scenario == find_scenario(scenarios, label)
         IN  IF scenario = None
             THEN [outcome |-> Raise("ValueError",
                                     scenario_error_message(st, label, scenarios)),
                   globals |-> rules]
             ELSE [outcome |-> Return(build_requirements(scenario, sch)),
                   globals |-> globals_after(scenario, sch)]

\* line 151: the signature has three parameters; a call that passes a fourth
\* argument (positionally or as scholarship_status=...) is rejected by the
\* interpreter with TypeError before the body runs.
call_get_requirements(st, label, sch, schStatus) ==
    IF schStatus # None
    THEN [outcome |-> Raise("TypeError", <<"get_requirements() takes 3 arguments">>),
          globals |-> rules]
    ELSE get_requirements(st, label, sch)

-----------------------------------------------------------------------------
(* Inputs *)

\* How many unregistered keys each argument is drawn from.
MaxUnknown == 1

UnknownKeys == {"unregistered_" \o ToString(i) : i \in 1..MaxUnknown}

AllLabels ==
    UNION {Range([i \in DOMAIN e.value |-> e.value[i].label]) : e \in Range(STATUS_RULES)}

\* 前学期も同じ身分で正規生として在籍, the label of the spec's first example
LABEL_SAME_STATUS_REGULAR == "prev_semester_same_status_regular"

StatusInputs == Range(keys(STATUS_RULES)) \cup UnknownKeys
ScenarioInputs == AllLabels \cup {"nonexistent", LABEL_SAME_STATUS_REGULAR}
ScholarshipInputs ==
    {None, Some("")} \cup {Some(k) : k \in Range(keys(SCHOLARSHIP_RULES)) \cup UnknownKeys}

ScholarshipStatusInputs ==
    {Some(k) : k \in Range(keys(SCHOLARSHIP_STATUS_RULES)) \cup UnknownKeys}

\* The inputs of the call sequences: a call of each outcome (a returned list with and
\* without a scholarship segment or placeholder, each of the two errors).
SeqStatusInputs == {"Seikisei", "Kenkyusei", "unregistered_1"}
SeqScenarioInputs ==
    {"current_year_enrolled_prev_semester", "prev_semester_also_research_student",
     "nonexistent"}
SeqScholarshipInputs ==
    {None, Some("reserved_scholarship_decided"), Some("unregistered_1")}

\* How many calls follow a kept call.
MaxBetween == 2

-----------------------------------------------------------------------------
(* The form page (web_app.py): the data index() embeds and the script's     *)
(* functions, each from the page before it runs to the page after.         *)

STATUS_OPTIONAL_RULES ==
    << Entry("Seikisei", <<
         Scenario("exceeds_standard_term", <<"RULE">>),          \* 標準修業年限を超えて研究する
         Scenario("planning_to_advance", <<"RULE">>) >>),        \* これから進学予定
       Entry("Kenkyusei", <<
         Scenario("research_student_over_1_year", <<"RULE">>),   \* 1年以上研究生を続けている
         Scenario("planning_graduate_school", <<"RULE">>),       \* 大学院進学予定
         Scenario("planning_to_continue_research", <<"RULE">>) >>) >>  \* 研究継続予定

SCENARIO_OPTIONAL_RULES ==
    << Entry("Kenkyusei", <<
         Entry("prev_semester_3_or_more_courses", <<             \* 前学期に3科目以上を履修（10単位程度）
           Scenario("becoming_research_student", <<"RULE">>) >>) >>) >>  \* これから研究生になる方

\* web_app.py lines 145-148: 日本政府以外の給付型の奨学金受給学生,
\* 日本政府以外の貸与型の奨学金受給学生
nonGovScholarships ==
    <<"non_government_grant_scholarship_student",
      "non_government_loan_scholarship_student">>

PROMPT_CHOOSE_SCHOLARSHIP_FIRST == "choose_scholarship_first"    \* 奨学金区分を先に選んでください
PROMPT_CHOOSE_SCHOLARSHIP_STATUS == "choose_scholarship_status"  \* 奨学金の状況を選択してください
ADVANCEMENT_NOTICE == "advancement_notice"                       \* web_app.py lines 143-144
OPTION_ADVANCING == "planning_to_advance"                        \* これから進学予定, line 370

\* The scholarship table of the visa_requirements that web_app.py is written
\* against: the keys of nonGovScholarships are categories of it (the scholarship
\* select offers only the table's keys, and the scholarship-status select opens
\* only for those two). visa_requirements.py under src/ has neither key; one item
\* stands for each key's list.
FORM_SCHOLARSHIP_RULES ==
    SCHOLARSHIP_RULES \o
    << Entry(nonGovScholarships[1], Items(<<"non_government_grant_scholarship_cert">>)),
       Entry(nonGovScholarships[2], Items(<<"non_government_loan_scholarship_cert">>)) >>

\* lines 23-29: build_status_payload, each Scenario as an object of its two fields
build_status_payload ==
    LET status_rules == rules.STATUS_RULES
    IN  [i \in DOMAIN status_rules |->
            Entry(status_rules[i].key,
                  [j \in DOMAIN status_rules[i].value |->
                      [label |-> status_rules[i].value[j].label,
                       requirements |-> status_rules[i].value[j].requirements]])]

\* lines 32-41: build_optional_payload
build_optional_payload(optional_rules) ==
    [i \in DOMAIN optional_rules |->
        Entry(optional_rules[i].key,
              [j \in DOMAIN optional_rules[i].value |->
                  [label |-> optional_rules[i].value[j].label,
                   requirements |-> optional_rules[i].value[j].requirements]])]

\* lines 51-63: the payload of the scenario-bound options
scenario_optional_payload ==
    [i \in DOMAIN SCENARIO_OPTIONAL_RULES |->
        Entry(SCENARIO_OPTIONAL_RULES[i].key,
              build_optional_payload(SCENARIO_OPTIONAL_RULES[i].value))]

\* lines 46-68, 137-142: the constants of the script, each the JSON text of a
\* payload read back as an object whose keys keep their order
statusData == build_status_payload
scholarshipData == FORM_SCHOLARSHIP_RULES
scholarshipStatusData == SCHOLARSHIP_STATUS_RULES
commonRequirements == rules.COMMON_REQUIREMENTS
statusOptionalData == build_optional_payload(STATUS_OPTIONAL_RULES)
scenarioOptionalData == scenario_optional_payload

\* Array.find by label: the first item of that label, None for undefined
find(items, label) ==
    IF \E i \in DOMAIN items : items[i].label = label
    THEN items[Min({i \in DOMAIN items : items[i].label = label})]
    ELSE None

\* Array.includes, Set.has
includes(list, x) == \E i \in DOMAIN list : list[i] = x

\* Array.flatMap over a list of lists
RECURSIVE flat(_)
flat(lists) == IF lists = <<>> THEN <<>> ELSE Head(lists) \o flat(Tail(lists))

\* Set.delete on the insertion-ordered Set
RECURSIVE delete(_, _)
delete(list, x) ==
    IF list = <<>> THEN <<>>
    ELSE IF Head(list) = x THEN Tail(list)
    ELSE <<Head(list)>> \o delete(Tail(list), x)

\* JSON.stringify of a list of strings, and JSON.parse of that text
JSON_stringify(x) == [json |-> x]
JSON_parse(text) == text.json

\* lines 205-212: the first item of each label, in order
RECURSIVE dedupe(_, _)
dedupe(items, seen) ==
    IF items = <<>> THEN <<>>
    ELSE IF Head(items).label \in seen THEN dedupe(Tail(items), seen)
    ELSE <<Head(items)>> \o dedupe(Tail(items), seen \cup {Head(items).label})

\* lines 188-247: renderOptions
renderOptions(f) ==
    IF f.statusSelect = "" THEN [f EXCEPT !.options = <<>>]
    ELSE LET st == f.statusSelect
             statusItems == get(statusOptionalData, st, <<>>)
             scenarioOptions == get(scenarioOptionalData, st, <<>>)
             scenarioItems ==
                flat([i \in DOMAIN f.selectedScenarios |->
                        get(scenarioOptions, f.selectedScenarios[i], <<>>)])
             dedupedItems == dedupe(statusItems \o scenarioItems, {})
         IN  [f EXCEPT !.options =
                [i \in DOMAIN dedupedItems |->
                    [label |-> dedupedItems[i].label,
                     requirements |-> JSON_stringify(dedupedItems[i].requirements),
                     checked |-> FALSE]]]

\* A variant of resetScenarioSelection: the selection is kept.
resetScenarioSelection_keeping(f) == f

\* lines 249-251: resetScenarioSelection
resetScenarioSelection(f) == [f EXCEPT !.selectedScenarios = <<>>]

\* lines 253-255: updateShowButtonState
updateShowButtonState(f) ==
    [f EXCEPT !.showButtonDisabled =
        (f.statusSelect = "" \/ Len(f.selectedScenarios) = 0)]

\* lines 305-329: renderRequirements
renderRequirements(f, requirements, noticeText) ==
    [f EXCEPT !.results = [notice |-> noticeText,
                           items |-> requirements,
                           empty |-> (Len(requirements) = 0)]]

\* lines 331-344: getSelectedOptionalSelections
getSelectedOptionalSelections(f) ==
    LET checked == SelectSeq(f.options, LAMBDA o : o.checked)
    IN  [i \in DOMAIN checked |->
            [label |-> checked[i].label,
             requirements |-> JSON_parse(checked[i].requirements)]]

\* A variant of selectionRequirements: the scholarship segment before the scenario's.
selectionRequirements_scholarship_first(f, sch, schStatus) ==
    LET scenarios == get(statusData, f.statusSelect, <<>>)
        scenarioRequirements ==
           flat([i \in DOMAIN f.selectedScenarios |->
                   LET scenario == find(scenarios, f.selectedScenarios[i])
                   IN  IF scenario = None THEN <<>> ELSE scenario.requirements])
        optionalSelections == getSelectedOptionalSelections(f)
        optionalRequirements ==
           flat([i \in DOMAIN optionalSelections |-> optionalSelections[i].requirements])
    IN  commonRequirements
          \o (IF sch # "" THEN get(scholarshipData, sch, <<>>) ELSE <<>>)
          \o scenarioRequirements
          \o optionalRequirements
          \o (IF schStatus # "" THEN get(scholarshipStatusData, schStatus, <<>>) ELSE <<>>)

\* lines 357-380: the list showRequirements builds
selectionRequirements(f, sch, schStatus) ==
    LET scenarios == get(statusData, f.statusSelect, <<>>)
        scenarioRequirements ==
           flat([i \in DOMAIN f.selectedScenarios |->
                   LET scenario == find(scenarios, f.selectedScenarios[i])
                   IN  IF scenario = None THEN <<>> ELSE scenario.requirements])
        optionalSelections == getSelectedOptionalSelections(f)
        optionalRequirements ==
           flat([i \in DOMAIN optionalSelections |-> optionalSelections[i].requirements])
    IN  commonRequirements
          \o scenarioRequirements
          \o optionalRequirements
          \o (IF sch # "" THEN get(scholarshipData, sch, <<>>) ELSE <<>>)
          \o (IF schStatus # "" THEN get(scholarshipStatusData, schStatus, <<>>) ELSE <<>>)

\* lines 368-371: noticeText
noticeText(f) ==
    LET optionalSelections == getSelectedOptionalSelections(f)
        shouldShowAdvancementNotice ==
           /\ f.statusSelect = "Seikisei"
           /\ \E i \in DOMAIN optionalSelections :
                 optionalSelections[i].label = OPTION_ADVANCING
    IN  IF shouldShowAdvancementNotice THEN ADVANCEMENT_NOTICE ELSE ""

\* lines 346-382: showRequirements
showRequirements(f) ==
    LET sch == f.scholarshipSelect
        schStatus == IF includes(nonGovScholarships, sch)
                     THEN f.scholarshipStatusSelect.value ELSE ""
    IN  IF f.statusSelect = "" \/ Len(f.selectedScenarios) = 0
        THEN renderRequirements(f, <<>>, "")
        ELSE renderRequirements(f, selectionRequirements(f, sch, schStatus), noticeText(f))

\* lines 257-275: toggleScenarioSelection(label, button, event), event.detail the
\* click count
toggleScenarioSelection(f, label, detail) ==
    IF detail > 1 THEN f
    ELSE LET g == IF includes(f.selectedScenarios, label)
                  THEN [f EXCEPT !.selectedScenarios = delete(@, label),
                                 !.scenarioList =
                                    [i \in DOMAIN @ |->
                                       IF @[i].label = label
                                       THEN [@[i] EXCEPT !.selected = FALSE] ELSE @[i]]]
                  ELSE [f EXCEPT !.selectedScenarios = Append(@, label),
                                 !.scenarioList =
                                    [i \in DOMAIN @ |->
                                       IF @[i].label = label
                                       THEN [@[i] EXCEPT !.selected = TRUE] ELSE @[i]]]
         IN  showRequirements(renderOptions(updateShowButtonState(g)))

\* lines 277-303: renderScenarios
renderScenarios(f) ==
    LET g == renderOptions(updateShowButtonState(resetScenarioSelection(
                [f EXCEPT !.scenarioList = <<>>])))
    IN  IF g.statusSelect = "" THEN g
        ELSE LET scenarios == lookup(statusData, g.statusSelect)
             IN  [g EXCEPT !.scenarioList =
                    [i \in DOMAIN scenarios |->
                        [label |-> scenarios[i].label, selected |-> FALSE]]]

\* lines 390-407: the scholarship select's second change listener
updateScholarshipStatusSelect(f) ==
    LET isNonGov == includes(nonGovScholarships, f.scholarshipSelect)
        closed == [f EXCEPT !.scholarshipStatusGroupHidden = TRUE,
                            !.scholarshipStatusSelect =
                               [value |-> "", disabled |-> TRUE,
                                prompt |-> PROMPT_CHOOSE_SCHOLARSHIP_FIRST]]
    IN  IF f.scholarshipSelect = "" THEN closed
        ELSE IF isNonGov
        THEN [f EXCEPT !.scholarshipStatusGroupHidden = FALSE,
                       !.scholarshipStatusSelect.disabled = FALSE,
                       !.scholarshipStatusSelect.prompt = PROMPT_CHOOSE_SCHOLARSHIP_STATUS]
        ELSE closed

\* lines 105-134: the page as served
Document ==
    [statusSelect |-> "",
     scenarioList |-> <<>>,
     selectedScenarios |-> <<>>,
     options |-> <<>>,
     scholarshipSelect |-> "",
     scholarshipStatusSelect |-> [value |-> "", disabled |-> TRUE,
                                  prompt |-> PROMPT_CHOOSE_SCHOLARSHIP_FIRST],
     scholarshipStatusGroupHidden |-> TRUE,
     showButtonDisabled |-> TRUE,
     results |-> [notice |-> "", items |-> <<>>, empty |-> FALSE]]

\* lines 411-414: the script's last statements, run as the page loads
LoadedDocument == renderScenarios(Document)

-----------------------------------------------------------------------------
(* Calls of get_requirements by an importing caller *)

Args(st, label, sch, schStatus) ==
    [status |-> st, scenario_label |-> label, scholarship |-> sch,
     scholarship_status |-> schStatus]

cli_vars == <<pc, status_choice, scenario_choice, scholarship_choice,
              status, scenario_label, scholarship, printed, exit_status>>

DoCall(st, label, sch, schStatus) ==
    LET r == call_get_requirements(st, label, sch, schStatus)
    IN  /\ IF prev = None THEN TRUE ELSE between < MaxBetween
        /\ call' = [args |-> Args(st, label, sch, schStatus), outcome |-> r.outcome]
        /\ rules' = r.globals
        /\ between' = IF prev = None THEN 0 ELSE between + 1

\* get_requirements(status, scenario_label, scholarship)
Call ==
    /\ \E st \in StatusInputs, label \in ScenarioInputs, sch \in ScholarshipInputs :
          DoCall(st, label, sch, None)
    /\ UNCHANGED <<prev, cli_vars, form>>

\* get_requirements(status, scenario_label, scholarship, scholarship_status)
CallWithScholarshipStatus ==
    /\ \E st \in StatusInputs, label \in ScenarioInputs, sch \in SeqScholarshipInputs,
          schStatus \in ScholarshipStatusInputs :
          DoCall(st, label, sch, schStatus)
    /\ UNCHANGED <<prev, cli_vars, form>>

\* The same, in a sequence of calls.
CallSeq ==
    /\ \E st \in SeqStatusInputs, label \in SeqScenarioInputs,
          sch \in SeqScholarshipInputs :
          DoCall(st, label, sch, None)
    /\ UNCHANGED <<prev, cli_vars, form>>

\* The caller keeps the latest call, to compare a later one with it.
Keep ==
    /\ call # None
    /\ ~(prev = call /\ between = 0)
    /\ prev' = call
    /\ between' = 0
    /\ UNCHANGED <<rules, call, cli_vars, form>>

Init ==
    /\ rules = Globals
    /\ call = None
    /\ prev = None
    /\ between = 0
    /\ pc = "main"
    /\ status_choice = None
    /\ scenario_choice = None
    /\ scholarship_choice = None
    /\ status = None
    /\ scenario_label = None
    /\ scholarship = None
    /\ printed = None
    /\ exit_status = None
    /\ form = LoadedDocument

Next == Call

Spec == Init /\ [][Next]_vars

NextSeq == CallSeq \/ Keep

SpecSeq == Init /\ [][NextSeq]_vars

NextStatus == CallWithScholarshipStatus

SpecStatus == Init /\ [][NextStatus]_vars

-----------------------------------------------------------------------------
(* The command line: the entry point (lines 211-232) and interactive_prompt *)
(* (lines 174-208).  A typed line is the sequence of its characters.        *)

\* The characters a typed line is made of, and the longest line typed.
EntryChars == {"-", "0", "1", "3", "6", "a", " "}
MaxEntryLen == 2
Entries == UNION {[1..n -> EntryChars] : n \in 0..MaxEntryLen}

Digits == {"0", "1", "2", "3", "4", "5", "6", "7", "8", "9"}
DigitValue(c) ==
    CASE c = "0" -> 0 [] c = "1" -> 1 [] c = "2" -> 2 [] c = "3" -> 3 [] c = "4" -> 4
      [] c = "5" -> 5 [] c = "6" -> 6 [] c = "7" -> 7 [] c = "8" -> 8 [] c = "9" -> 9

\* str.strip(): the line without its leading and trailing blanks.
RECURSIVE strip(_)
strip(e) ==
    IF e = <<>> THEN e
    ELSE IF e[1] = " " THEN strip(Tail(e))
    ELSE IF e[Len(e)] = " " THEN strip(SubSeq(e, 1, Len(e) - 1))
    ELSE e

\* int(str): an optional sign and one or more decimal digits; anything else raises
\* ValueError.
int_digits(e) == IF e # <<>> /\ e[1] \in {"-", "+"} THEN Tail(e) ELSE e
int_ok(e) == int_digits(e) # <<>> /\ \A i \in DOMAIN int_digits(e) : int_digits(e)[i] \in Digits
RECURSIVE digits_value(_)
digits_value(ds) ==
    IF ds = <<>> THEN 0
    ELSE 10 * digits_value(SubSeq(ds, 1, Len(ds) - 1)) + DigitValue(ds[Len(ds)])
int(e) == IF e[1] = "-" THEN 0 - digits_value(int_digits(e)) ELSE digits_value(int_digits(e))

\* list[i] with Python's index i: from the front for i >= 0, from the back for
\* i < 0, IndexError outside -len..len-1.
index_ok(list, i) == 0 - Len(list) <= i /\ i < Len(list)
index(list, i) == IF i >= 0 THEN list[i + 1] ELSE list[Len(list) + i + 1]

\* lines 180-183, 189-192, 200-203: try: options[int(choice) - 1], except
\* (ValueError, IndexError): raise SystemExit(...)
select_ok(options, choice) == int_ok(choice) /\ index_ok(options, int(choice) - 1)
select(options, choice) == index(options, int(choice) - 1)

MSG_ENTER_CORRECT_NUMBER == "enter_a_correct_number"   \* 正しい番号を入力してください。

\* raise SystemExit(text): the text on standard error, exit status 1.
SystemExit(text) == [code |-> 1, msg |-> Some(text)]
\* An exception nobody catches: the traceback on standard error, exit status 1.
Uncaught(outcome) == [code |-> 1, msg |-> Some(outcome.msg)]
ExitOk == [code |-> 0, msg |-> None]

\* The values argparse gives --status, --scenario and --scholarship (lines 218-225).
ArgStatusInputs == {None, Some(""), Some("Seikisei"), Some("unregistered_1")}
ArgScenarioInputs ==
    {None, Some(""), Some("current_year_enrolled_prev_semester"), Some("nonexistent")}
ArgScholarshipInputs == SeqScholarshipInputs

\* lines 227-230: both --status and --scenario given
MainWithArgs ==
    /\ pc = "main"
    /\ \E a_status \in ArgStatusInputs, a_scenario \in ArgScenarioInputs,
          a_scholarship \in ArgScholarshipInputs :
          /\ Truthy(a_status) /\ Truthy(a_scenario)
          /\ LET r == get_requirements(a_status.val, a_scenario.val, a_scholarship)
             IN  /\ call' = [args |-> Args(a_status.val, a_scenario.val, a_scholarship, None),
                             outcome |-> r.outcome]
                 /\ rules' = r.globals
                 /\ printed' = IF r.outcome.kind = "return"
                               THEN Some(r.outcome.value) ELSE None
                 /\ exit_status' = IF r.outcome.kind = "return"
                                   THEN ExitOk ELSE Uncaught(r.outcome)
    /\ pc' = "done"
    /\ UNCHANGED <<prev, between, status_choice, scenario_choice, scholarship_choice,
                   status, scenario_label, scholarship, form>>

\* lines 231-232, 175-177: otherwise interactive_prompt() shows the status menu
MainPrompt ==
    /\ pc = "main"
    /\ \E a_status \in ArgStatusInputs, a_scenario \in ArgScenarioInputs :
          ~(Truthy(a_status) /\ Truthy(a_scenario))
    /\ pc' = "menu_status"
    /\ UNCHANGED <<rules, call, prev, between, status_choice, scenario_choice,
                   scholarship_choice, status, scenario_label, scholarship, printed,
                   exit_status, form>>

\* lines 178-187: the status menu's entry
EnterStatus ==
    /\ pc = "menu_status"
    /\ \E e \in Entries :
          LET choice == strip(e)
              status_values == keys(rules.STATUS_RULES)
          IN  /\ status_choice' = Some(choice)
              /\ IF select_ok(status_values, choice)
                 THEN /\ status' = Some(select(status_values, choice))
                      /\ pc' = "menu_scenario"
                      /\ exit_status' = exit_status
                 ELSE /\ status' = status
                      /\ pc' = "done"
                      /\ exit_status' = SystemExit(MSG_ENTER_CORRECT_NUMBER)
    /\ UNCHANGED <<rules, call, prev, between, scenario_choice, scholarship_choice,
                   scenario_label, scholarship, printed, form>>

\* lines 188-196: the scenario menu's entry
EnterScenario ==
    /\ pc = "menu_scenario"
    /\ \E e \in Entries :
          LET choice == strip(e)
              scenarios == lookup(rules.STATUS_RULES, status.val)
          IN  /\ scenario_choice' = Some(choice)
              /\ IF select_ok(scenarios, choice)
                 THEN /\ scenario_label' = Some(select(scenarios, choice).label)
                      /\ pc' = "menu_scholarship"
                      /\ exit_status' = exit_status
                 ELSE /\ scenario_label' = scenario_label
                      /\ pc' = "done"
                      /\ exit_status' = SystemExit(MSG_ENTER_CORRECT_NUMBER)
    /\ UNCHANGED <<rules, call, prev, between, status_choice, scholarship_choice,
                   status, scholarship, printed, form>>

\* lines 197-208: the scholarship menu's entry, the call and the printed list
EnterScholarship ==
    /\ pc = "menu_scholarship"
    /\ \E e \in Entries :
          LET choice == strip(e)
              scholarship_keys == keys(rules.SCHOLARSHIP_RULES)
              rejected == choice # <<>> /\ ~select_ok(scholarship_keys, choice)
              chosen == IF choice = <<>> THEN None
                        ELSE Some(select(scholarship_keys, choice))
              r == get_requirements(status.val, scenario_label.val, chosen)
          IN  /\ scholarship_choice' = Some(choice)
              /\ IF rejected
                 THEN /\ exit_status' = SystemExit(MSG_ENTER_CORRECT_NUMBER)
                      /\ UNCHANGED <<scholarship, call, rules, printed>>
                 ELSE /\ scholarship' = chosen
                      /\ call' = [args |-> Args(status.val, scenario_label.val, chosen, None),
                                  outcome |-> r.outcome]
                      /\ rules' = r.globals
                      /\ printed' = IF r.outcome.kind = "return"
                                    THEN Some(r.outcome.value) ELSE None
                      /\ exit_status' = IF r.outcome.kind = "return"
                                        THEN ExitOk ELSE Uncaught(r.outcome)
    /\ pc' = "done"
    /\ UNCHANGED <<prev, between, status_choice, scenario_choice, status, scenario_label,
                   form>>

NextCli == MainWithArgs \/ MainPrompt \/ EnterStatus \/ EnterScenario \/ EnterScholarship

SpecCli == Init /\ [][NextCli]_vars


-----------------------------------------------------------------------------
(* The events of the form page, each with every listener the page registers *)
(* for it, in the order of registration.                                   *)

ClickDetails == {1, 2}          \* event.detail: a single click, the second of a double click

options_of(select_keys) == {""} \cup Range(select_keys)

form_unchanged ==
    UNCHANGED <<rules, call, prev, between, cli_vars>>

\* lines 384-387: change of the status select
StatusChange ==
    /\ \E v \in options_of(keys(statusData)) :
          /\ v # form.statusSelect
          /\ form' = showRequirements(renderScenarios([form EXCEPT !.statusSelect = v]))
    /\ form_unchanged

\* lines 298-300: click on a scenario pill
ScenarioClick ==
    /\ \E i \in DOMAIN form.scenarioList, detail \in ClickDetails :
          form' = toggleScenarioSelection(form, form.scenarioList[i].label, detail)
    /\ form_unchanged

\* line 236: change of an option's checkbox
OptionChange ==
    /\ \E i \in DOMAIN form.options :
          form' = showRequirements([form EXCEPT !.options[i].checked = ~@])
    /\ form_unchanged

\* lines 389-407: change of the scholarship select, its two listeners
ScholarshipChange ==
    /\ \E v \in options_of(keys(scholarshipData)) :
          /\ v # form.scholarshipSelect
          /\ form' = updateScholarshipStatusSelect(
                        showRequirements([form EXCEPT !.scholarshipSelect = v]))
    /\ form_unchanged

\* line 408: change of the scholarship-status select
ScholarshipStatusChange ==
    /\ ~form.scholarshipStatusSelect.disabled
    /\ \E v \in options_of(keys(scholarshipStatusData)) :
          /\ v # form.scholarshipStatusSelect.value
          /\ form' = showRequirements([form EXCEPT !.scholarshipStatusSelect.value = v])
    /\ form_unchanged

\* line 409: click on the show button
ShowClick ==
    /\ ~form.showButtonDisabled
    /\ form' = showRequirements(form)
    /\ form_unchanged

NextForm ==
    \/ StatusChange
    \/ ScenarioClick
    \/ OptionChange
    \/ ScholarshipChange
    \/ ScholarshipStatusChange
    \/ ShowClick

SpecForm == Init /\ [][NextForm]_vars

-----------------------------------------------------------------------------
(* Properties of get_requirements.  The tables named below are the tables   *)
(* as written in the source (COMMON_REQUIREMENTS, STATUS_RULES,            *)
(* SCHOLARSHIP_RULES), not the globals the call read.                      *)

LabelsOf(st) ==
    LET scenarios == lookup(STATUS_RULES, st)
    IN  [i \in DOMAIN scenarios |-> scenarios[i].label]

ValidStatus(a) == contains(STATUS_RULES, a.status)
ValidPair(a) == ValidStatus(a) /\ a.scenario_label \in Range(LabelsOf(a.status))

\* The requirements of the scenario the arguments name.
ScenarioRequirements(a) ==
    LET scenarios == lookup(STATUS_RULES, a.status)
    IN  (CHOOSE sc \in Range(scenarios) : sc.label = a.scenario_label).requirements

\* A call with get_requirements' three arguments has been made.
Called == call # None /\ call.args.scholarship_status = None

Returned == call.outcome.kind = "return"

IsPlaceholder(item) ==
    Len(item) = 3 /\ item[1] = MSG_SCHOLARSHIP_PRE /\ item[3] = MSG_SCHOLARSHIP_POST

Placeholders(list) == {i \in DOMAIN list : IsPlaceholder(list[i])}

\* C1: for every status of STATUS_RULES, every scenario label under it and every
\* scholarship argument (absent, a known key, an unknown key), the returned list
\* begins with exactly COMMON_REQUIREMENTS, in order.
C1_CommonPrefix ==
    (Called /\ ValidPair(call.args)) =>
        /\ Returned
        /\ Len(call.outcome.value) >= Len(COMMON_REQUIREMENTS)
        /\ SubSeq(call.outcome.value, 1, Len(COMMON_REQUIREMENTS)) = COMMON_REQUIREMENTS

\* A call for the last scenario of 研究生 with an unregistered scholarship key returned.
C1_Witness ==
    /\ Called
    /\ call.args.status = "Kenkyusei"
    /\ call.args.scenario_label = "prev_semester_3_or_more_courses"
    /\ call.args.scholarship = Some("unregistered_1")
    /\ Returned
    /\ Len(call.outcome.value) > Len(COMMON_REQUIREMENTS)

\* C2: for every status that is no key of STATUS_RULES the call fails with the
\* unknown-status error, whatever the scenario label and the scholarship are.
C2_UnknownStatus ==
    (Called /\ ~ValidStatus(call.args)) =>
        call.outcome = Raise("ValueError", <<MSG_UNKNOWN_STATUS, call.args.status>>)

\* A call with an unknown status and a scenario label no status has failed.
C2_Witness ==
    /\ Called
    /\ ~ValidStatus(call.args)
    /\ call.args.scenario_label = "nonexistent"
    /\ call.args.scholarship = Some("unregistered_1")
    /\ call.outcome.kind = "ValueError"

\* C3: for every valid status and every scenario label that is no label under that
\* status, the call fails with the unknown-scenario error, whose message lists the
\* labels of that status: all of them, in order, and nothing else.
C3_UnknownScenario ==
    (Called /\ ValidStatus(call.args) /\ ~ValidPair(call.args)) =>
        /\ call.outcome.kind = "ValueError"
        /\ Len(call.outcome.msg) >= 3
        /\ call.outcome.msg[1] = MSG_UNKNOWN_SCENARIO
        /\ call.outcome.msg[2] = call.args.scenario_label
        /\ call.outcome.msg[3] = MSG_CANDIDATES
        /\ LET listed == SubSeq(call.outcome.msg, 4, Len(call.outcome.msg))
               labels == LabelsOf(call.args.status)
           IN  /\ Len(listed) = 2 * Len(labels) - 1
               /\ \A i \in DOMAIN labels : listed[2 * i - 1] = labels[i]
               /\ \A i \in 1..(Len(labels) - 1) : listed[2 * i] = ", "

\* A call for 正規生 with a label that belongs to 研究生 has failed.
C3_Witness ==
    /\ Called
    /\ call.args.status = "Seikisei"
    /\ call.args.scenario_label = "prev_semester_also_research_student"
    /\ call.outcome.kind = "ValueError"
    /\ call.outcome.msg[1] = MSG_UNKNOWN_SCENARIO

\* The returned list is the common and scenario requirements followed by exactly one
\* placeholder, which names the key.
OnePlaceholderAfterScenario(a, list) ==
    LET n == Len(COMMON_REQUIREMENTS) + Len(ScenarioRequirements(a))
    IN  /\ Placeholders(list) = {n + 1}
        /\ Len(list) = n + 1
        /\ SubSeq(list, 1, n) = COMMON_REQUIREMENTS \o ScenarioRequirements(a)
        /\ list[n + 1][2] = a.scholarship.val

\* C4 as stated: for every valid pair and every provided scholarship key that is no
\* key of SCHOLARSHIP_RULES, the empty string included, the call returns a list with
\* exactly one placeholder naming the key, after the scenario requirements.
C4_Original ==
    (/\ Called
     /\ ValidPair(call.args)
     /\ call.args.scholarship # None
     /\ ~contains(SCHOLARSHIP_RULES, call.args.scholarship.val)) =>
        /\ Returned
        /\ OnePlaceholderAfterScenario(call.args, call.outcome.value)

\* C4 as amended: the same for every non-empty key that is no key of
\* SCHOLARSHIP_RULES; the empty string counts as no scholarship, and the list is
\* then the common and scenario requirements alone, without a placeholder.
C4_Amended ==
    (/\ Called
     /\ ValidPair(call.args)
     /\ call.args.scholarship # None
     /\ ~contains(SCHOLARSHIP_RULES, call.args.scholarship.val)) =>
        /\ Returned
        /\ IF call.args.scholarship.val # ""
           THEN OnePlaceholderAfterScenario(call.args, call.outcome.value)
           ELSE call.outcome.value =
                    COMMON_REQUIREMENTS \o ScenarioRequirements(call.args)

\* A call for a valid pair with an unregistered, non-empty key returned.
C4_Witness ==
    /\ Called
    /\ ValidPair(call.args)
    /\ call.args.scholarship = Some("unregistered_1")
    /\ Returned
    /\ Placeholders(call.outcome.value) # {}

\* C5: for every valid pair, with a key of SCHOLARSHIP_RULES the returned list is
\* COMMON_REQUIREMENTS, then the scenario's requirements, then the key's list, each in
\* table order, nothing removed and no placeholder; without a scholarship it is the
\* first two segments.
C5_Concatenation ==
    (/\ Called
     /\ ValidPair(call.args)
     /\ \/ call.args.scholarship = None
        \/ contains(SCHOLARSHIP_RULES, call.args.scholarship.val)) =>
        /\ Returned
        /\ Placeholders(call.outcome.value) = {}
        /\ call.outcome.value =
              COMMON_REQUIREMENTS \o ScenarioRequirements(call.args)
                \o (IF call.args.scholarship = None THEN <<>>
                    ELSE lookup(SCHOLARSHIP_RULES, call.args.scholarship.val))

\* A call with the key whose list has two items returned the three segments.
C5_Witness ==
    /\ Called
    /\ ValidPair(call.args)
    /\ call.args.scholarship = Some("reserved_scholarship_decided")
    /\ Returned
    /\ Len(call.outcome.value) =
          Len(COMMON_REQUIREMENTS) + Len(ScenarioRequirements(call.args)) + 2

\* The scholarship segment of a returned list: the key's list, one placeholder for
\* an unregistered key, nothing without a scholarship.
ScholarshipSegmentLen(a) ==
    IF ~Truthy(a.scholarship) THEN 0
    ELSE IF contains(SCHOLARSHIP_RULES, a.scholarship.val)
         THEN Len(lookup(SCHOLARSHIP_RULES, a.scholarship.val))
         ELSE 1

\* C6: the resolver takes an optional scholarship-status key: a key of the
\* scholarship-status table adds that key's requirements as the last segment, after
\* the scholarship segment, and a key that is not in the table does not fail and
\* adds one placeholder instead.
C6_ScholarshipStatus ==
    (/\ call # None
     /\ call.args.scholarship_status # None
     /\ ValidPair(call.args)) =>
        /\ Returned
        /\ LET key == call.args.scholarship_status.val
               list == call.outcome.value
               n == Len(COMMON_REQUIREMENTS) + Len(ScenarioRequirements(call.args))
                      + ScholarshipSegmentLen(call.args)
           IN  IF contains(SCHOLARSHIP_STATUS_RULES, key)
               THEN /\ Len(list) = n + Len(lookup(SCHOLARSHIP_STATUS_RULES, key))
                    /\ SubSeq(list, n + 1, Len(list)) = lookup(SCHOLARSHIP_STATUS_RULES, key)
               ELSE /\ Len(list) = n + 1
                    /\ key \in Range(list[n + 1])

ListedLabels(msg) == [i \in 1..((Len(msg) - 2) \div 2) |-> msg[2 * i + 2]]

\* C8 as stated: get_requirements("正規生", "前学期も同じ身分で正規生として在籍", None)
\* returns the common requirements (4 items) followed by exactly the 2 items of that
\* scenario, 6 items in all.
C8_Original ==
    (Called /\ call.args = Args("Seikisei", LABEL_SAME_STATUS_REGULAR, None, None)) =>
        /\ Returned
        /\ Len(COMMON_REQUIREMENTS) = 4
        /\ Len(call.outcome.value) = 6
        /\ SubSeq(call.outcome.value, 1, 4) = COMMON_REQUIREMENTS

\* C8 as amended: that call fails with the unknown-scenario error, whose message
\* lists the three labels of 正規生 (none of them is that label); the call for the
\* first scenario of 正規生, get_requirements("正規生", "現学年・前学期在籍", None),
\* returns the 5 common requirements followed by exactly the 3 items of that
\* scenario, 8 items in all, in table order.
C8_Amended ==
    /\ (Called /\ call.args = Args("Seikisei", LABEL_SAME_STATUS_REGULAR, None, None)) =>
          call.outcome =
             Raise("ValueError",
                   <<MSG_UNKNOWN_SCENARIO, LABEL_SAME_STATUS_REGULAR, MSG_CANDIDATES,
                     "current_year_enrolled_prev_semester", ", ",
                     "prev_semester_not_taken", ", ",
                     "withdrew_transfer_from_language_school">>)
    /\ (Called /\ call.args =
                    Args("Seikisei", "current_year_enrolled_prev_semester", None, None)) =>
          call.outcome =
             Return(<< <<"application_form_3_plus_2_sheets">>,
                       <<"document_checklist_and_enrollment_certs">>,
                       <<"transcripts_and_enrollment_certs_unmasked">>,
                       <<"passport_and_residence_card_originals">>,
                       <<"revenue_stamp_6000_yen">>,
                       <<"alien_registration_cert_original">>,
                       <<"transcript_prev_year_or_semester">>,
                       <<"enrollment_cert_with_period">> >>)

\* The call of the example has been made and has failed.
C8_Witness ==
    /\ Called
    /\ call.args = Args("Seikisei", LABEL_SAME_STATUS_REGULAR, None, None)
    /\ call.outcome.kind = "ValueError"
    /\ Len(ListedLabels(call.outcome.msg)) = 3

\* C9 as stated: get_requirements("研究生", "nonexistent", None) fails with the
\* unknown-scenario error, which lists the 5 labels of 研究生.
C9_Original ==
    (Called /\ call.args = Args("Kenkyusei", "nonexistent", None, None)) =>
        /\ call.outcome.kind = "ValueError"
        /\ call.outcome.msg[1] = MSG_UNKNOWN_SCENARIO
        /\ Len(ListedLabels(call.outcome.msg)) = 5

\* C9 as amended: that call fails with the unknown-scenario error, which lists the
\* 3 labels of 研究生, in table order.
C9_Amended ==
    (Called /\ call.args = Args("Kenkyusei", "nonexistent", None, None)) =>
        /\ call.outcome.kind = "ValueError"
        /\ call.outcome.msg[1] = MSG_UNKNOWN_SCENARIO
        /\ ListedLabels(call.outcome.msg) =
              <<"prev_semester_also_research_student",
                "prev_semester_at_language_school",
                "prev_semester_3_or_more_courses">>

\* The call of the example has been made and has failed.
C9_Witness ==
    /\ Called
    /\ call.args = Args("Kenkyusei", "nonexistent", None, None)
    /\ call.outcome.kind = "ValueError"
    /\ call.outcome.msg[2] = "nonexistent"

-----------------------------------------------------------------------------
(* Properties of the interactive prompt *)

\* The typed line is a number of the menu, 1..n.
NumberOfMenu(choice, n) == int_ok(choice) /\ int(choice) \in 1..n

\* The program has exited with a non-zero status and the error message, and has
\* neither called get_requirements nor printed a list.
Rejected ==
    /\ pc = "done"
    /\ exit_status # None
    /\ exit_status.code # 0
    /\ exit_status.msg = Some(MSG_ENTER_CORRECT_NUMBER)
    /\ call = None
    /\ printed = None

\* C10: at each of the three menus, an entry that is not a number in 1..N for the
\* menu's N options (0, a negative number and text that is no number included; the
\* empty entry is allowed at the scholarship menu only) makes the program exit with
\* a non-zero status and an error message, without calling get_requirements and
\* without printing a requirement list.
C10_OutOfRangeRejected ==
    /\ (status_choice # None /\ ~NumberOfMenu(status_choice.val, Len(STATUS_RULES)))
          => Rejected
    /\ (scenario_choice # None
          /\ ~NumberOfMenu(scenario_choice.val, Len(lookup(STATUS_RULES, status.val))))
          => Rejected
    /\ (scholarship_choice # None /\ scholarship_choice.val # <<>>
          /\ ~NumberOfMenu(scholarship_choice.val, Len(SCHOLARSHIP_RULES)))
          => Rejected


-----------------------------------------------------------------------------
(* Properties of the form page *)

\* The scholarship argument a caller of get_requirements passes for a value of
\* the scholarship select.
ScholarshipArgument(value) == IF value = "" THEN None ELSE Some(value)

NoOptionChecked == \A i \in DOMAIN form.options : ~form.options[i].checked

\* One scenario of a selected status is selected, no option is checked, and the
\* scholarship select holds no choice or a key of SCHOLARSHIP_RULES.
SingleSelection ==
    /\ form.statusSelect # ""
    /\ Len(form.selectedScenarios) = 1
    /\ NoOptionChecked
    /\ IF form.scholarshipSelect = "" THEN TRUE
       ELSE contains(SCHOLARSHIP_RULES, form.scholarshipSelect)

ResolverOutcome ==
    get_requirements(form.statusSelect, form.selectedScenarios[1],
                     ScholarshipArgument(form.scholarshipSelect)).outcome

SelectedScenarioRequirements(label) ==
    ScenarioRequirements([status |-> form.statusSelect, scenario_label |-> label])

\* The requirements the tables give the option of a label: the status's options
\* first, then those bound to a scenario of the status.
OptionRequirements(label) ==
    LET ofStatus == get(STATUS_OPTIONAL_RULES, form.statusSelect, <<>>)
        byScenario == get(SCENARIO_OPTIONAL_RULES, form.statusSelect, <<>>)
        ofScenarios == flat([i \in DOMAIN byScenario |-> byScenario[i].value])
    IN  (CHOOSE o \in Range(ofStatus \o ofScenarios) : o.label = label).requirements

CheckedOptions == SelectSeq(form.options, LAMBDA o : o.checked)

ScholarshipStatusCounts ==
    /\ form.scholarshipSelect \in Range(nonGovScholarships)
    /\ form.scholarshipStatusSelect.value # ""

\* The list the current selections call for.
Recomputed ==
    IF form.statusSelect = "" \/ form.selectedScenarios = <<>> THEN <<>>
    ELSE COMMON_REQUIREMENTS
           \o flat([i \in DOMAIN form.selectedScenarios |->
                      SelectedScenarioRequirements(form.selectedScenarios[i])])
           \o flat([i \in DOMAIN CheckedOptions |->
                      OptionRequirements(CheckedOptions[i].label)])
           \o (IF form.scholarshipSelect = "" THEN <<>>
               ELSE lookup(FORM_SCHOLARSHIP_RULES, form.scholarshipSelect))
           \o (IF ScholarshipStatusCounts
               THEN lookup(SCHOLARSHIP_STATUS_RULES, form.scholarshipStatusSelect.value)
               ELSE <<>>)

CurrentLabels ==
    IF form.statusSelect = "" THEN {} ELSE Range(LabelsOf(form.statusSelect))

FormConsistent ==
    /\ Range(form.selectedScenarios) \subseteq CurrentLabels
    /\ form.showButtonDisabled = ~(form.statusSelect # "" /\ form.selectedScenarios # <<>>)
    /\ form.results.items = Recomputed

StatusChangeClears ==
    form'.statusSelect # form.statusSelect => form'.selectedScenarios = <<>>

=============================================================================
